---- MODULE Spec2Model ----
(***************************************************************************)
(* A model of scripts/compiler.py of DuWebKit: the template compiler       *)
(* (Compiler.compile), its caches (built_html, built_dict), the assignment *)
(* table (_assign_dict) and variable resolution (Compiler.parse_variable). *)
(*                                                                         *)
(* Text is a sequence of tokens [t, a, b]; a and b are strings.  A token   *)
(* stands for the piece of text one regular expression of the program      *)
(* matches (a directive, a {{name}} reference) or for literal text.        *)
(***************************************************************************)
EXTENDS Integers, Sequences, FiniteSets, TLC

VARIABLES
  pc,            \* position of the running call
  stack,         \* frames of Compiler.compile, outermost first
  line,          \* parse_variable: the local `line`
  ans,           \* parse_variable: the local `ans` (the match, or NoAns)
  _assign_dict,  \* Compiler._assign_dict
  built_dict,    \* Compiler.built_dict
  built_html,    \* Compiler.built_html
  current,       \* Lang.current: "en" or "cn"
  en,            \* Lang.en
  cn,            \* Lang.cn
  log,           \* records written by logging.warning / logging.error
  result,        \* the value the last finished call returned
  line0,         \* parse_variable: the argument it was called with
  last_pass,     \* parse_variable: what the last pass of its loop did
  templates,     \* the template files under Dir.templates: filename -> lines
  minimize_html, \* App.minimize_html
  outputs,       \* the files written under Dir.builds: filename -> text
  asset_writes,  \* the asset files written under Dir.builds, per write
  abort,         \* the exception that ended the run, if any
  calls,         \* number of calls of compile made by the build script
  nmut,          \* number of changes made to the template files
  pv_for,        \* the caller of parse_variable: "line" (line 208), "image" (line 191)
  fills,         \* the calls of fill_templates made, in order
  asked,         \* the arguments of the last call the build script made
  stored         \* the stores into built_html (line 224), in order

\* what parse_variable does not touch
compileVars == <<stack, _assign_dict, built_dict, built_html, templates,
                 minimize_html, outputs, asset_writes, abort, calls, nmut,
                 fills, asked, stored>>
langVars == <<current, en, cn>>
pvVars == <<line, ans, line0, last_pass, pv_for>>

vars == <<pc, log, result, pvVars, langVars, compileVars>>

-----------------------------------------------------------------------------
(* Tokens *)

Tok(t, a, b) == [t |-> t, a |-> a, b |-> b]
Txt(s) == Tok("txt", s, "")
Var(n) == Tok("var", n, "")
\* what str.strip('"') strips, what replace turns into <br />, a blank line
Quote == Tok("quote", "", "")
BsBs == Tok("bsbs", "", "")
Br == Tok("br", "", "")
Blank == Tok("blank", "", "")
\* what markdown() emits around and between paragraphs
POpen == Tok("<p>", "", "")
PClose == Tok("</p>", "", "")
Newline == Tok("nl", "", "")
NoAns == Tok("none", "", "")
NoResult == [file |-> "", value |-> <<>>]
NoAbort == [error |-> "", file |-> ""]
NoPass == [ref |-> NoAns, before |-> <<>>, logs |-> {}]
NoCall == [filename |-> "", write_to_file |-> FALSE]

-----------------------------------------------------------------------------
(* Python string operations on names *)

\* variable[-3:]
Last3(v) == IF Len(v) <= 3 THEN v ELSE SubSeq(v, Len(v) - 2, Len(v))

\* variable[:-3]
DropLast3(v) == IF Len(v) <= 3 THEN "" ELSE SubSeq(v, 1, Len(v) - 3)

\* variable.find(s) != -1
Find(v, s) == \E i \in 1..(Len(v) - Len(s) + 1) : SubSeq(v, i, i + Len(s) - 1) = s

-----------------------------------------------------------------------------
(* Regex.VARIABLE.search(line): the leftmost {{name}} of the line *)

VarPositions(l) == {i \in 1..Len(l) : l[i].t = "var"}

Search(l) ==
  IF VarPositions(l) = {} THEN NoAns
  ELSE l[CHOOSE i \in VarPositions(l) : \A j \in VarPositions(l) : i <= j]

\* The pieces of a text, put one after the other.  (Here and below an
\* argument is bound in a singleton set where that makes TLC evaluate it once
\* instead of at every use.)
Concat(pieces0) ==
  LET Join(pieces) ==
        LET F[i \in 0..Len(pieces)] == IF i = 0 THEN <<>> ELSE F[i - 1] \o pieces[i]
        IN F[Len(pieces)]
  IN CHOOSE r \in {Join(pieces) : pieces \in {pieces0}} : TRUE

\* line.replace(ans.group(0), value): every occurrence of the matched text
Replace(l, tok, value) ==
  Concat([i \in 1..Len(l) |-> IF l[i] = tok THEN value ELSE <<l[i]>>])

-----------------------------------------------------------------------------
(* Compiler.parse_markdown *)

\* str.strip('"'): leading and trailing quotes go
Strip(text) ==
  LET keep == {i \in 1..Len(text) : text[i] # Quote}
  IN IF keep = {} THEN <<>>
     ELSE SubSeq(text, CHOOSE i \in keep : \A j \in keep : i <= j,
                       CHOOSE i \in keep : \A j \in keep : j <= i)

\* .replace('\\\\', '<br />')
ReplaceBackslashes(text) == [i \in 1..Len(text) |-> IF text[i] = BsBs THEN Br ELSE text[i]]

\* markdown(text): blank lines separate paragraphs; each paragraph is wrapped
\* in <p>..</p> and paragraphs are joined by a newline; no text, no markup.
MarkdownPiece(text, i) ==
  IF text[i] = Blank THEN <<>>
  ELSE (IF i = 1 \/ text[i - 1] = Blank
        THEN (IF \E j \in 1..(i - 1) : text[j] # Blank THEN <<Newline>> ELSE <<>>)
             \o <<POpen>>
        ELSE <<>>)
       \o <<text[i]>>
       \o (IF i = Len(text) \/ text[i + 1] = Blank THEN <<PClose>> ELSE <<>>)

Markdown(text) == Concat([i \in 1..Len(text) |-> MarkdownPiece(text, i)])

\* len(text) in characters
TokLen(tok) ==
  CASE tok.t = "txt" -> Len(tok.a)
    [] tok.t = "var" -> Len(tok.a) + 4
    [] tok.t = "<p>" -> 3
    [] tok.t = "</p>" -> 4
    [] tok.t = "br" -> 6
    [] tok.t = "bsbs" -> 2
    [] OTHER -> 1

CharLen(text) ==
  LET F[i \in 0..Len(text)] == IF i = 0 THEN 0 ELSE F[i - 1] + TokLen(text[i])
  IN F[Len(text)]

parse_markdown(text0) ==
  LET Unwrap(text) ==
        IF CharLen(text) > 7 /\ Head(text) = POpen /\ text[Len(text)] = PClose
        THEN SubSeq(text, 2, Len(text) - 1)
        ELSE text
      Stripped == {ReplaceBackslashes(t) : t \in {Strip(t0) : t0 \in {text0}}}
  IN CHOOSE r \in {Unwrap(text) : text \in {Markdown(t) : t \in Stripped}} : TRUE

-----------------------------------------------------------------------------
(* Compiler.parse_variable, one step per evaluation of the loop *)

Catalog(l) == IF l = "en" THEN en ELSE cn

\* lines 245-247
Redirect(variable) ==
  IF variable \in DOMAIN _assign_dict THEN _assign_dict[variable] ELSE variable

\* ForceLanguage without its _en branch: the suffix goes, the current language stays.
ForceLanguageEnglishIgnored(variable) ==
  IF Last3(variable) = "_cn"
  THEN [language |-> "cn", variable |-> DropLast3(variable)]
  ELSE IF Find(variable, "_en")
       THEN [language |-> current, variable |-> DropLast3(variable)]
       ELSE [language |-> current, variable |-> variable]

\* lines 249-258
ForceLanguage(variable) ==
  IF Last3(variable) = "_cn"
  THEN [language |-> "cn", variable |-> DropLast3(variable)]
  ELSE IF Find(variable, "_en")
       THEN [language |-> "en", variable |-> DropLast3(variable)]
       ELSE [language |-> current, variable |-> variable]

Warning(v) == [level |-> "warning", variable |-> v]
Error(v) == [level |-> "error", variable |-> v]

\* lines 260-270: the value found, and whether the loop goes on
Lookup(sel) ==
  LET language == Catalog(sel.language)
      variable == sel.variable
  IN IF variable \notin DOMAIN language
     THEN IF variable \notin DOMAIN en
          THEN [found |-> FALSE, value |-> <<>>,
                logs |-> {Warning(variable), Error(variable)}]
          ELSE [found |-> TRUE, value |-> en[variable],
                logs |-> {Warning(variable)}]
     ELSE [found |-> TRUE, value |-> language[variable], logs |-> {}]

\* line 241: while ans
PVWhile ==
  /\ pc = "pv_while"
  /\ pc' = IF ans # NoAns THEN "pv_body" ELSE "pv_return"
  /\ UNCHANGED <<log, result, pvVars, langVars, compileVars>>

\* PVBody with a missing variable raised as an exception instead of `break`.
PVBodyRaises ==
  /\ pc = "pv_body"
  /\ LET r == Lookup(ForceLanguage(Redirect(ans.a)))
     IN /\ log' = log \cup r.logs
        /\ last_pass' = [ref |-> ans, before |-> line, logs |-> r.logs]
        /\ IF r.found
           THEN /\ \E value \in {parse_markdown(r.value)} :
                     line' = Replace(line, ans, value)
                /\ ans' = Search(line')
                /\ pc' = "pv_while"
                /\ UNCHANGED abort
           ELSE /\ pc' = "aborted"
                /\ abort' = [error |-> "KeyError", file |-> ans.a]
                /\ UNCHANGED <<line, ans>>
  /\ UNCHANGED <<result, line0, pv_for, langVars, stack, _assign_dict, built_dict,
                 built_html, templates, minimize_html, outputs, asset_writes, calls, nmut,
                 fills, asked, stored>>

\* lines 242-275: one pass of the loop body
PVBody ==
  /\ pc = "pv_body"
  /\ LET r == Lookup(ForceLanguage(Redirect(ans.a)))
     IN /\ log' = log \cup r.logs
        /\ last_pass' = [ref |-> ans, before |-> line, logs |-> r.logs]
        /\ IF r.found
           THEN /\ \E value \in {parse_markdown(r.value)} :
                     line' = Replace(line, ans, value)
                /\ ans' = Search(line')
                /\ pc' = "pv_while"
           ELSE /\ pc' = "pv_return"      \* break
                /\ UNCHANGED <<line, ans>>
  /\ UNCHANGED <<result, line0, pv_for, langVars, compileVars>>

\* line 276, for a call of parse_variable on its own
PVDone ==
  /\ pc = "pv_return"
  /\ stack = <<>>
  /\ result' = [file |-> "", value |-> line]
  /\ pc' = "done"
  /\ UNCHANGED <<log, pvVars, langVars, compileVars>>

-----------------------------------------------------------------------------
(* Compiler.compile: the directives of a line *)

Assign(lhs, rhs) == Tok("assign", lhs, rhs)   \* <!-- lhs = rhs -->
Include(f) == Tok("include", f, "")           \* <!-- include: f -->
Css(f) == Tok("css", f, "")                   \* <!-- css: f -->
Js(f) == Tok("js", f, "")                     \* <!-- js: f -->
Cmt == Tok("cmt", "", "")                     \* a comment that is no directive
LinkTag(path) == Tok("link", path, "")        \* <link rel="stylesheet" href="/path" />
ScriptTag(path) == Tok("script", path, "")    \* <script src="/path"></script>
Image(f, description) == Tok("image", f, description)  \* <!-- image: f | description -->
Publication(f) == Tok("publication", f, "")   \* <!-- publication: f -->
Art(f) == Tok("art", f, "")                   \* <!-- art: f -->

\* line 145: line.find('<!--') != -1 or line.find('{{') != -1
HasMarker(l) ==
  \E i \in 1..Len(l) :
    l[i].t \in {"assign", "include", "css", "js", "image", "publication", "art", "cmt", "var"}

\* Regex.X.search(line): the leftmost match of the pattern, or NoAns
Match(l, kind) ==
  LET at == {i \in 1..Len(l) : l[i].t = kind}
  IN IF at = {} THEN NoAns ELSE l[CHOOSE i \in at : \A j \in at : i <= j]

\* Handler with the include directive tried before the assignment.
HandlerIncludeFirst(l) ==
  IF ~HasMarker(l) THEN "plain"
  ELSE IF Match(l, "include") # NoAns THEN "include"
  ELSE IF Match(l, "assign") # NoAns THEN "assign"
  ELSE IF Match(l, "css") # NoAns THEN "css"
  ELSE IF Match(l, "js") # NoAns THEN "js"
  ELSE "variables"

\* lines 145-208: the branch of the loop body that takes the line
Handler(l) ==
  IF ~HasMarker(l) THEN "plain"
  ELSE IF Match(l, "assign") # NoAns THEN "assign"
  ELSE IF Match(l, "include") # NoAns THEN "include"
  ELSE IF Match(l, "css") # NoAns THEN "css"
  ELSE IF Match(l, "js") # NoAns THEN "js"
  ELSE "variables"

\* os.path.join(Dir.css, css_filename).replace('\\', '/')
CssPath(f) == "css/" \o f
JsPath(f) == "js/" \o f

\* htmlmin.minify(html, remove_comments=True, remove_all_empty_space=True)
Minify(html) == SelectSeq(html, LAMBDA tok : tok.t \notin {"cmt", "nl"})

-----------------------------------------------------------------------------
(* Compiler.compile: image, publication and art embeds *)

\* os.path.join(Dir.images, f).replace('\\', '/') and os.path.join(Dir.templates, f)
ImagePath(f) == "images/" \o f
TemplatesPath(f) == "templates/" \o f

\* ans.group(2) of an image directive: a reference {{name}} or plain text
DescLine(description) ==
  IF Len(description) > 4 /\ SubSeq(description, 1, 2) = "{{"
       /\ SubSeq(description, Len(description) - 1, Len(description)) = "}}"
  THEN <<Var(SubSeq(description, 3, Len(description) - 2))>>
  ELSE <<Txt(description)>>

\* DuMark.get_image('/' + image_filename, image_description)
ImageMarkup(path, description) ==
  <<Tok("img", "/" \o path, "")>> \o description \o <<Tok("/img", "", "")>>

\* The publication and art sub-files under Dir.templates: the condition list
\* of the first line, and the other lines
SubFiles ==
  [f \in {"pubs.html", "arts.html"} |->
     IF f = "pubs.html"
     THEN [conditions |-> "selected", body |-> <<Txt("paper"), Var("title")>>]
     ELSE [conditions |-> "all", body |-> <<Txt("work")>>]]

\* Data.papers.fill_templates / Data.arts.fill_templates (conditions, lines[1:])
Fill(kind, sub) == <<Tok("filled", kind, sub.conditions)>> \o sub.body

\* compile_publication / compile_art (lines 98-120) from lines 195-205: the
\* line, the calls of fill_templates and the exception they come to
EmbedOne(kind, st) ==
  LET m == Match(st.line, kind)
  IN IF st.error # "" \/ m = NoAns THEN st
     ELSE IF TemplatesPath(m.a) \in DOMAIN built_html
     THEN [st EXCEPT !.line = built_html[TemplatesPath(m.a)]]
     ELSE IF m.a \notin DOMAIN SubFiles
     THEN [st EXCEPT !.error = "IOError", !.file = TemplatesPath(m.a)]
     ELSE [st EXCEPT !.line = Fill(kind, SubFiles[m.a]),
                     !.fills = Append(@, [kind |-> kind, file |-> m.a])]

\* lines 195-205: the publication embed, then the art embed of its result
Embeds(l) ==
  EmbedOne("art", EmbedOne("publication",
                           [line |-> l, fills |-> fills, error |-> "", file |-> ""]))

-----------------------------------------------------------------------------
(* Compiler.compile: frames *)

MaxDepth == 4       \* the interpreter's recursion limit, in frames of compile
MaxCalls == 2       \* calls of compile the build script makes
MaxMutations == 1   \* changes of the template files between calls

Put(d, k, v) == [x \in DOMAIN d \cup {k} |-> IF x = k THEN v ELSE d[x]]

Top == stack[Len(stack)]
CurLine == Top.lines[Top.i]
AtLine == pc = "loop" /\ stack # <<>> /\ Top.i <= Len(Top.lines)

\* html += text, and on to the next line
Advance(frame, text) == [frame EXCEPT !.html = @ \o text, !.i = @ + 1]
AdvanceTop(text) == [stack EXCEPT ![Len(stack)] = Advance(Top, text)]
\* an include directive of the frame's file has been processed (line 163)
Included(frame, f) == [frame EXCEPT !.included = @ \cup {f}]

\* line 140: the frame of a call that reads its file
NewFrame(filename, write_to_file) ==
  [filename |-> filename, lines |-> templates[filename], i |-> 1, html |-> <<>>,
   write_to_file |-> write_to_file, included |-> {}]

\* EnterOutcome without the test of line 131: a file is rendered at every call.
EnterOutcomeNoCache(filename) ==
  IF Len(stack) >= MaxDepth THEN "RecursionError"
  ELSE IF filename \notin DOMAIN templates THEN "IOError"
  ELSE "render"

\* lines 131-141: what a call of compile(filename) comes to
EnterOutcome(filename) ==
  IF Len(stack) >= MaxDepth THEN "RecursionError"
  ELSE IF filename \in DOMAIN built_html THEN "cached"
  ELSE IF filename \notin DOMAIN templates THEN "IOError"
  ELSE "render"

Raise(error, filename) ==
  /\ abort' = [error |-> error, file |-> filename]
  /\ pc' = "aborted"

-----------------------------------------------------------------------------
(* Compiler.compile: one step per line *)

\* the build script calls compile(filename, write_to_file)
Call(filename, write_to_file) ==
  /\ pc = "idle"
  /\ calls < MaxCalls
  /\ calls' = calls + 1
  /\ asked' = [filename |-> filename, write_to_file |-> write_to_file]
  /\ LET outcome == EnterOutcome(filename)
     IN \/ /\ outcome = "cached"
           /\ result' = [file |-> filename, value |-> built_html[filename]]
           /\ UNCHANGED <<pc, stack, abort>>
        \/ /\ outcome \in {"IOError", "RecursionError"}
           /\ Raise(outcome, filename)
           /\ UNCHANGED <<stack, result>>
        \/ /\ outcome = "render"
           /\ stack' = <<NewFrame(filename, write_to_file)>>
           /\ pc' = "loop"
           /\ UNCHANGED <<abort, result>>
  /\ UNCHANGED <<log, pvVars, langVars, _assign_dict, built_dict, built_html,
                 templates, minimize_html, outputs, asset_writes, nmut, fills, stored>>

\* lines 145-147
PlainLine ==
  /\ AtLine
  /\ Handler(CurLine) = "plain"
  /\ stack' = AdvanceTop(CurLine)
  /\ UNCHANGED <<pc, log, result, pvVars, langVars, _assign_dict, built_dict,
                 built_html, templates, minimize_html, outputs, asset_writes,
                 abort, calls, nmut, fills, asked, stored>>

\* AssignLine without its `continue`: the line is appended as well.
AssignLineEmitsLine ==
  /\ AtLine
  /\ Handler(CurLine) = "assign"
  /\ LET m == Match(CurLine, "assign")
     IN _assign_dict' = Put(_assign_dict, m.a, m.b)
  /\ stack' = AdvanceTop(CurLine)
  /\ UNCHANGED <<pc, log, result, pvVars, langVars, built_dict, built_html,
                 templates, minimize_html, outputs, asset_writes, abort, calls, nmut,
                 fills, asked, stored>>

\* AssignLine with an alias kept at its first target (dict.setdefault).
AssignLineFirstWins ==
  /\ AtLine
  /\ Handler(CurLine) = "assign"
  /\ LET m == Match(CurLine, "assign")
     IN _assign_dict' = IF m.a \in DOMAIN _assign_dict THEN _assign_dict
                        ELSE Put(_assign_dict, m.a, m.b)
  /\ stack' = AdvanceTop(<<>>)
  /\ UNCHANGED <<pc, log, result, pvVars, langVars, built_dict, built_html,
                 templates, minimize_html, outputs, asset_writes, abort, calls, nmut,
                 fills, asked, stored>>

\* lines 149-155
AssignLine ==
  /\ AtLine
  /\ Handler(CurLine) = "assign"
  /\ LET m == Match(CurLine, "assign")
     IN _assign_dict' = Put(_assign_dict, m.a, m.b)
  /\ stack' = AdvanceTop(<<>>)
  /\ UNCHANGED <<pc, log, result, pvVars, langVars, built_dict, built_html,
                 templates, minimize_html, outputs, asset_writes, abort, calls, nmut,
                 fills, asked, stored>>

\* IncludeLine with the assignment lines of a cached file applied again.
IncludeLineReappliesAssignments ==
  /\ AtLine
  /\ Handler(CurLine) = "include"
  /\ LET include_filename == Match(CurLine, "include").a
         outcome == EnterOutcome(include_filename)
         lines == templates[include_filename]
         assigns == {i \in 1..Len(lines) : Handler(lines[i]) = "assign"}
         last == Match(lines[CHOOSE i \in assigns : \A j \in assigns : j <= i], "assign")
     IN \/ /\ outcome = "cached"
           /\ stack' = [stack EXCEPT ![Len(stack)] =
                          Included(Advance(Top, built_html[include_filename]),
                                   include_filename)]
           /\ result' = [file |-> include_filename,
                         value |-> built_html[include_filename]]
           /\ _assign_dict' = IF assigns = {} THEN _assign_dict
                              ELSE Put(_assign_dict, last.a, last.b)
           /\ UNCHANGED <<pc, abort>>
        \/ /\ outcome \in {"IOError", "RecursionError"}
           /\ Raise(outcome, include_filename)
           /\ UNCHANGED <<stack, result, _assign_dict>>
        \/ /\ outcome = "render"
           /\ stack' = Append(stack, NewFrame(include_filename, FALSE))
           /\ UNCHANGED <<pc, abort, result, _assign_dict>>
  /\ UNCHANGED <<log, pvVars, langVars, built_dict, built_html,
                 templates, minimize_html, outputs, asset_writes, calls, nmut,
                 fills, asked, stored>>

\* IncludeLine with the exception of the call caught and an empty text included.
IncludeLineSwallowsErrors ==
  /\ AtLine
  /\ Handler(CurLine) = "include"
  /\ LET include_filename == Match(CurLine, "include").a
         outcome == EnterOutcome(include_filename)
     IN \/ /\ outcome = "cached"
           /\ stack' = [stack EXCEPT ![Len(stack)] =
                          Included(Advance(Top, built_html[include_filename]),
                                   include_filename)]
           /\ result' = [file |-> include_filename,
                         value |-> built_html[include_filename]]
        \/ /\ outcome \in {"IOError", "RecursionError"}
           /\ stack' = [stack EXCEPT ![Len(stack)] =
                          Included(Advance(Top, <<>>), include_filename)]
           /\ UNCHANGED result
        \/ /\ outcome = "render"
           /\ stack' = Append(stack, NewFrame(include_filename, FALSE))
           /\ UNCHANGED result
  /\ UNCHANGED <<pc, abort, log, pvVars, langVars, _assign_dict, built_dict, built_html,
                 templates, minimize_html, outputs, asset_writes, calls, nmut,
                 fills, asked, stored>>

\* lines 157-164, with lines 131-141 of the call they make
IncludeLine ==
  /\ AtLine
  /\ Handler(CurLine) = "include"
  /\ LET include_filename == Match(CurLine, "include").a
         outcome == EnterOutcome(include_filename)
     IN \/ /\ outcome = "cached"
           /\ stack' = [stack EXCEPT ![Len(stack)] =
                          Included(Advance(Top, built_html[include_filename]),
                                   include_filename)]
           /\ result' = [file |-> include_filename,
                         value |-> built_html[include_filename]]
           /\ UNCHANGED <<pc, abort>>
        \/ /\ outcome \in {"IOError", "RecursionError"}
           /\ Raise(outcome, include_filename)
           /\ UNCHANGED <<stack, result>>
        \/ /\ outcome = "render"
           /\ stack' = Append(stack, NewFrame(include_filename, FALSE))
           /\ UNCHANGED <<pc, abort, result>>
  /\ UNCHANGED <<log, pvVars, langVars, _assign_dict, built_dict, built_html,
                 templates, minimize_html, outputs, asset_writes, calls, nmut,
                 fills, asked, stored>>

\* lines 172-173 and 182-183
AssetTag(kind, f) == IF kind = "css" THEN LinkTag(CssPath(f)) ELSE ScriptTag(JsPath(f))

\* The asset sources under Dir.templates
CssSources == {"site.css", "main"}
JsSources == {"app.js", "main"}

\* AssetLine without the tests of lines 68 and 83: the asset is built at every
\* reference.
AssetLineAlwaysBuilds(kind, sources) ==
  /\ AtLine
  /\ Handler(CurLine) = kind
  /\ LET asset_filename == Match(CurLine, kind).a
     IN IF asset_filename \notin sources
        THEN /\ Raise("IOError", asset_filename)
             /\ UNCHANGED <<stack, built_dict, asset_writes>>
        ELSE /\ asset_writes' = Append(asset_writes, [kind |-> kind, file |-> asset_filename])
             /\ built_dict' = built_dict \cup {asset_filename}
             /\ stack' = AdvanceTop(<<AssetTag(kind, asset_filename)>>)
             /\ UNCHANGED <<pc, abort>>
  /\ UNCHANGED <<log, result, pvVars, langVars, _assign_dict, built_html,
                 templates, minimize_html, outputs, calls, nmut, fills, asked, stored>>

\* compile_css / compile_js (lines 65-96), called at lines 171 and 181, and
\* the tag of lines 172-173 / 182-183
AssetLine(kind, sources) ==
  /\ AtLine
  /\ Handler(CurLine) = kind
  /\ LET asset_filename == Match(CurLine, kind).a
     IN IF asset_filename \in built_dict
        THEN /\ stack' = AdvanceTop(<<AssetTag(kind, asset_filename)>>)
             /\ UNCHANGED <<pc, abort, built_dict, asset_writes>>
        ELSE IF asset_filename \notin sources
        THEN /\ Raise("IOError", asset_filename)
             /\ UNCHANGED <<stack, built_dict, asset_writes>>
        ELSE /\ asset_writes' = Append(asset_writes, [kind |-> kind, file |-> asset_filename])
             /\ built_dict' = built_dict \cup {asset_filename}
             /\ stack' = AdvanceTop(<<AssetTag(kind, asset_filename)>>)
             /\ UNCHANGED <<pc, abort>>
  /\ UNCHANGED <<log, result, pvVars, langVars, _assign_dict, built_html,
                 templates, minimize_html, outputs, calls, nmut, fills, asked, stored>>

\* lines 166-174
CssLine == AssetLine("css", CssSources)

\* lines 176-184
JsLine == AssetLine("js", JsSources)

\* the call of parse_variable, up to its first search (line 240)
EnterParseVariable(l, caller) ==
  /\ line' = l
  /\ line0' = l
  /\ ans' = Search(l)
  /\ last_pass' = NoPass
  /\ pv_for' = caller
  /\ pc' = "pv_while"

\* lines 195-208 on the line that lines 186-193 leave
EmbedsThenVariables(l) ==
  LET e == Embeds(l)
  IN IF e.error # ""
     THEN /\ Raise(e.error, e.file)
          /\ UNCHANGED <<pvVars, fills>>
     ELSE /\ EnterParseVariable(e.line, "line")
          /\ fills' = e.fills
          /\ UNCHANGED abort

\* lines 186-208 for a line without an image directive
VariablesLine ==
  /\ AtLine
  /\ Handler(CurLine) = "variables"
  /\ Match(CurLine, "image") = NoAns
  /\ EmbedsThenVariables(CurLine)
  /\ UNCHANGED <<log, result, langVars, stack, _assign_dict, built_dict, built_html,
                 templates, minimize_html, outputs, asset_writes, calls, nmut,
                 asked, stored>>

\* lines 187-191: the image directive, up to the first search of
\* parse_variable(ans.group(2))
ImageLine ==
  /\ AtLine
  /\ Handler(CurLine) = "variables"
  /\ Match(CurLine, "image") # NoAns
  /\ EnterParseVariable(DescLine(Match(CurLine, "image").b), "image")
  /\ UNCHANGED <<log, result, langVars, compileVars>>

\* lines 191-208: parse_variable returns the description; the line becomes the
\* image markup and goes through lines 195-208
ImageReturn ==
  /\ pc = "pv_return"
  /\ stack # <<>>
  /\ pv_for = "image"
  /\ EmbedsThenVariables(
       Markdown(ImageMarkup(ImagePath(Match(CurLine, "image").a), line)))
  /\ UNCHANGED <<log, result, langVars, stack, _assign_dict, built_dict, built_html,
                 templates, minimize_html, outputs, asset_writes, calls, nmut,
                 asked, stored>>

\* line 276 and line 211: parse_variable returns, the line is appended
PVReturn ==
  /\ pc = "pv_return"
  /\ stack # <<>>
  /\ pv_for = "line"
  /\ stack' = AdvanceTop(line)
  /\ pc' = "loop"
  /\ UNCHANGED <<log, result, pvVars, langVars, _assign_dict, built_dict,
                 built_html, templates, minimize_html, outputs, asset_writes,
                 abort, calls, nmut, fills, asked, stored>>

\* Finish with the store of line 224 made for the file of the outermost call
\* only.
FinishCachesOnlyEntry ==
  /\ pc = "loop"
  /\ stack # <<>>
  /\ Top.i > Len(Top.lines)
  /\ LET html == IF Top.write_to_file /\ minimize_html THEN Minify(Top.html) ELSE Top.html
     IN /\ outputs' = IF Top.write_to_file THEN Put(outputs, Top.filename, html) ELSE outputs
        /\ result' = [file |-> Top.filename, value |-> html]
        /\ IF Len(stack) = 1
           THEN /\ stack' = <<>>
                /\ pc' = "idle"
                /\ built_html' = Put(built_html, Top.filename, html)
                /\ stored' = Append(stored, [filename |-> Top.filename,
                                             included |-> Top.included])
           ELSE /\ stack' = [i \in 1..(Len(stack) - 1) |->
                               IF i = Len(stack) - 1
                               THEN Included(Advance(stack[i], html), Top.filename)
                               ELSE stack[i]]
                /\ pc' = "loop"
                /\ UNCHANGED <<built_html, stored>>
  /\ UNCHANGED <<log, pvVars, langVars, _assign_dict, built_dict, templates,
                 minimize_html, asset_writes, abort, calls, nmut, fills, asked>>

\* lines 213-225, and line 163 of the caller when there is one
Finish ==
  /\ pc = "loop"
  /\ stack # <<>>
  /\ Top.i > Len(Top.lines)
  /\ LET html == IF Top.write_to_file /\ minimize_html THEN Minify(Top.html) ELSE Top.html
     IN /\ outputs' = IF Top.write_to_file THEN Put(outputs, Top.filename, html) ELSE outputs
        /\ built_html' = Put(built_html, Top.filename, html)
        /\ result' = [file |-> Top.filename, value |-> html]
        /\ stored' = Append(stored, [filename |-> Top.filename, included |-> Top.included])
        /\ IF Len(stack) = 1
           THEN /\ stack' = <<>>
                /\ pc' = "idle"
           ELSE /\ stack' = [i \in 1..(Len(stack) - 1) |->
                               IF i = Len(stack) - 1
                               THEN Included(Advance(stack[i], html), Top.filename)
                               ELSE stack[i]]
                /\ pc' = "loop"
  /\ UNCHANGED <<log, pvVars, langVars, _assign_dict, built_dict, templates,
                 minimize_html, asset_writes, abort, calls, nmut, fills, asked>>

-----------------------------------------------------------------------------
(* Inputs of parse_variable *)

MaxLineLen == 2

TitleEn == <<Txt("Title")>>
TitleCn == <<Txt("BiaoTi")>>
NameEn == <<Quote, Txt("Ruofei"), BsBs, Txt("Du"), Quote>>
NameCn == <<Txt("Du"), Blank, Txt("Ruofei")>>
OpenEndEn == <<Txt("Open end")>>
OpenEndCn == <<Txt("KaiFang")>>
OpenEn == <<Txt("Open")>>
Absent == <<Tok("absent", "", "")>>

Keys == {"title", "name", "open_end", "open_"}

EnOptions(k) ==
  CASE k = "title" -> {Absent, TitleEn, <<Var("title")>>, <<Var("name")>>}
    [] k = "name" -> {Absent, NameEn}
    [] k = "open_end" -> {Absent, OpenEndEn}
    [] k = "open_" -> {Absent, OpenEn}

CnOptions(k) ==
  CASE k = "title" -> {Absent, TitleCn}
    [] k = "name" -> {Absent, NameCn}
    [] k = "open_end" -> {Absent, OpenEndCn}
    [] k = "open_" -> {Absent}

MakeCatalog(c) == [k \in {k \in Keys : c[k] # Absent} |-> c[k]]

EnCatalogs == {MakeCatalog(c) : c \in {c \in [Keys -> UNION {EnOptions(k) : k \in Keys}] :
                                        \A k \in Keys : c[k] \in EnOptions(k)}}
CnCatalogs == {MakeCatalog(c) : c \in {c \in [Keys -> UNION {CnOptions(k) : k \in Keys}] :
                                        \A k \in Keys : c[k] \in CnOptions(k)}}

EmptyDict == [k \in {} |-> ""]
Dict(k, v) == [x \in {k} |-> v]

PVAssigns == {EmptyDict, Dict("alias", "title"), Dict("alias", "open_end"),
              Dict("title_en", "name")}

PVTokens == {Txt("Hi"), Var("title"), Var("name"), Var("title_en"), Var("title_cn"),
             Var("open_end"), Var("alias")}

RECURSIVE LinesUpTo(_)
LinesUpTo(n) ==
  IF n = 0 THEN {<<>>}
  ELSE LinesUpTo(n - 1) \cup {Append(l, t) : l \in LinesUpTo(n - 1), t \in PVTokens}

PVLines == LinesUpTo(MaxLineLen) \ {<<>>}

InitPV ==
  /\ line \in PVLines
  /\ ans = Search(line)
  /\ pc = "pv_while"
  /\ stack = <<>>
  /\ _assign_dict \in PVAssigns
  /\ built_dict = {}
  /\ built_html = EmptyDict
  /\ current \in {"en", "cn"}
  /\ en \in EnCatalogs
  /\ cn \in CnCatalogs
  /\ log = {}
  /\ result = NoResult
  /\ line0 = line
  /\ last_pass = NoPass
  /\ templates = EmptyDict
  /\ minimize_html = FALSE
  /\ outputs = EmptyDict
  /\ asset_writes = <<>>
  /\ abort = NoAbort
  /\ calls = 0
  /\ nmut = 0
  /\ pv_for = "line"
  /\ fills = <<>>
  /\ asked = NoCall
  /\ stored = <<>>

NextPV == PVWhile \/ PVBody \/ PVDone

SpecPV == InitPV /\ [][NextPV]_vars

\* The same calls with one catalog in play (English, the current language)
\* and no redirection.  The loop is sequential code: a step that can be taken
\* is taken.
InitPVEnglish ==
  /\ InitPV
  /\ current = "en"
  /\ cn = EmptyDict
  /\ _assign_dict = EmptyDict

FairSpecPV == InitPVEnglish /\ [][NextPV]_vars /\ WF_vars(NextPV)

-----------------------------------------------------------------------------
(* A site: its template files, and the versions an edit can leave them in *)

Files == {"index.html", "footer.html", "page.html", "a.html", "b.html", "broken.html",
          "gallery.html"}

\* the content of each template when the run starts
Site ==
  [f \in Files |->
     CASE f = "index.html" ->
            << <<Css("site.css")>>, <<Var("title")>>, <<Include("footer.html")>> >>
       [] f = "footer.html" -> << <<Txt("bye")>> >>
       [] f = "page.html" ->
            << <<Assign("alias", "title"), Include("footer.html")>>,
               <<Var("alias"), Var("nosuch"), Var("name")>>,
               <<Txt("end")>>,
               <<Include("footer.html")>> >>
       [] f = "a.html" -> << <<Txt("A")>>, <<Include("b.html")>> >>
       [] f = "b.html" -> << <<Include("a.html")>> >>
       [] f = "broken.html" ->
            << <<Txt("x")>>, <<Include("missing.html")>>, <<Txt("y")>> >>
       [] f = "gallery.html" ->
            << <<Assign("alias", "name"), Css("site.css"), Var("title")>>,
               <<Js("app.js"), Image("me.png", "me")>>,
               <<Image("me.png", "{{alias}}"), Var("title")>>,
               <<Publication("pubs.html"), Txt("x")>>,
               <<Publication("pubs.html")>>,
               <<Art("arts.html"), Var("title")>>,
               <<Include("page.html"), Publication("nopub.html")>> >>]

\* the contents a template can have during the run
Versions(f) ==
  {Site[f]} \cup
  CASE f = "index.html" ->
         { << <<Css("site.css"), Var("title")>>, <<Js("app.js")>>, <<Css("site.css")>>,
              <<Include("page.html")>>, <<Include("broken.html")>> >> }
    [] f = "footer.html" -> { << <<Cmt, Var("alias"), Newline>> >> }
    [] f = "b.html" ->
         { << <<Include("footer.html")>>, <<Js("main")>>, <<Css("main")>> >> }
    [] f = "broken.html" -> { << <<Css("gone.css")>> >>,
                             << <<Publication("nopub.html")>> >> }
    [] OTHER -> {}

\* an edit of a template file, between two calls of compile
MutateSource(f, content) ==
  /\ pc = "idle"
  /\ nmut < MaxMutations
  /\ content # templates[f]
  /\ templates' = [templates EXCEPT ![f] = content]
  /\ nmut' = nmut + 1
  /\ UNCHANGED <<pc, log, result, pvVars, langVars, stack, _assign_dict, built_dict,
                 built_html, minimize_html, outputs, asset_writes, abort, calls,
                 fills, asked, stored>>

Init ==
  /\ pc = "idle"
  /\ stack = <<>>
  /\ line = <<>>
  /\ ans = NoAns
  /\ line0 = <<>>
  /\ last_pass = NoPass
  /\ _assign_dict = EmptyDict
  /\ built_dict = {}
  /\ built_html = EmptyDict
  /\ current \in {"en", "cn"}
  /\ en = [k \in {"title", "name"} |-> IF k = "title" THEN TitleEn ELSE NameEn]
  /\ cn \in {EmptyDict, [k \in {"title"} |-> TitleCn]}
  /\ log = {}
  /\ result = NoResult
  /\ templates = Site
  /\ minimize_html \in BOOLEAN
  /\ outputs = EmptyDict
  /\ asset_writes = <<>>
  /\ abort = NoAbort
  /\ calls = 0
  /\ nmut = 0
  /\ pv_for = "line"
  /\ fills = <<>>
  /\ asked = NoCall
  /\ stored = <<>>

Next ==
  \/ \E f \in Files, w \in BOOLEAN : Call(f, w)
  \/ \E f \in Files : \E content \in Versions(f) : MutateSource(f, content)
  \/ PlainLine
  \/ AssignLine
  \/ IncludeLine
  \/ CssLine
  \/ JsLine
  \/ VariablesLine
  \/ ImageLine
  \/ ImageReturn
  \/ PVWhile
  \/ PVBody
  \/ PVReturn
  \/ Finish

Spec == Init /\ [][Next]_vars

-----------------------------------------------------------------------------
(* Properties of parse_variable *)

\* The rule of the specification: a language is forced by a suffix only.
SuffixSelection(v) ==
  IF Last3(v) = "_cn" THEN [language |-> "cn", variable |-> DropLast3(v)]
  ELSE IF Last3(v) = "_en" THEN [language |-> "en", variable |-> DropLast3(v)]
  ELSE [language |-> current, variable |-> v]

InParseVariable == pc \in {"pv_while", "pv_body", "pv_return", "done"}
PassDone == InParseVariable /\ last_pass # NoPass
\* the loop was left by `break`, not by running out of references
Broke == pc \in {"pv_return", "done"} /\ ans # NoAns
Errors(logs) == {r \in logs : r.level = "error"}
Substituted(value) == line = Replace(last_pass.before, last_pass.ref, parse_markdown(value))
IsSuffix(s, t) == Len(s) <= Len(t) /\ SubSeq(t, Len(t) - Len(s) + 1, Len(t)) = s
FirstIndex(l, tok) == CHOOSE i \in 1..Len(l) : l[i] = tok /\ \A j \in 1..(i - 1) : l[j] # tok

\* C3: the language is forced exactly when the (redirected) name ends with
\* _en or _cn, the suffix is then stripped and that catalog used; any other
\* name is looked up unchanged in the current catalog.
C3_ForcedOnlyBySuffix ==
  pc = "pv_body" =>
    ForceLanguage(Redirect(ans.a)) = SuffixSelection(Redirect(ans.a))

\* C4 as stated: {{name_en}} with name in the English catalog is replaced by
\* the rendered English text of name, whatever the current language is.
C4_ForcedEnglishAlways ==
  (PassDone /\ Last3(last_pass.ref.a) = "_en" /\ Len(last_pass.ref.a) > 3
     /\ DropLast3(last_pass.ref.a) \in DOMAIN en)
  => (Substituted(en[DropLast3(last_pass.ref.a)]) /\ ~Broke)

\* C4 as amended: the same, for a reference name_en that the assignment table
\* does not redirect.
C4_ForcedEnglishUnlessRedirected ==
  (PassDone /\ Last3(last_pass.ref.a) = "_en" /\ Len(last_pass.ref.a) > 3
     /\ last_pass.ref.a \notin DOMAIN _assign_dict
     /\ DropLast3(last_pass.ref.a) \in DOMAIN en)
  => (Substituted(en[DropLast3(last_pass.ref.a)]) /\ ~Broke)

C4_Witness ==
  /\ PassDone
  /\ last_pass.ref = Var("title_en")
  /\ "title_en" \notin DOMAIN _assign_dict
  /\ current = "cn"
  /\ "title" \in DOMAIN cn
  /\ "title" \in DOMAIN en /\ en["title"] = TitleEn
  /\ last_pass.before = <<Var("title_en"), Var("title")>>
  /\ line = <<Txt("Title"), Var("title")>>

\* C5: with alias a -> b in the assignment table and b defined as X in the
\* catalog selected for b, a pass over {{a}} replaces it by the rendered X.
C5_AliasResolvesToTarget ==
  (PassDone /\ last_pass.ref.a \in DOMAIN _assign_dict)
  => LET sel == SuffixSelection(_assign_dict[last_pass.ref.a])
     IN sel.variable \in DOMAIN Catalog(sel.language)
        => Substituted(Catalog(sel.language)[sel.variable])

\* C6: a variable absent from the selected catalog and present in the English
\* one is replaced by the English text, with a warning and no error, and the
\* loop goes on.
C6_FallbackWarnsAndContinues ==
  PassDone
  => LET sel == SuffixSelection(Redirect(last_pass.ref.a))
     IN (sel.variable \notin DOMAIN Catalog(sel.language) /\ sel.variable \in DOMAIN en)
        => /\ Substituted(en[sel.variable])
           /\ \E r \in last_pass.logs : r.level = "warning"
           /\ Errors(last_pass.logs) = {}
           /\ ~Broke

\* C7: a reference absent from the selected and from the fallback catalog
\* records an error and ends resolution of the line: the line is as it was
\* before the pass, and what follows the reference is the original text.
C7_MissTruncatesLine ==
  PassDone
  => LET sel == SuffixSelection(Redirect(last_pass.ref.a))
     IN (sel.variable \notin DOMAIN Catalog(sel.language) /\ sel.variable \notin DOMAIN en)
        => /\ Errors(last_pass.logs) # {}
           /\ Broke
           /\ line = last_pass.before
           /\ IsSuffix(SubSeq(line, FirstIndex(line, last_pass.ref) + 1, Len(line)), line0)
           /\ (pc = "done" => result.value = line)

\* C8: every call of parse_variable ends.
C8_ParseVariableTerminates == <>(pc = "done")

\* a name the specification's rule finds in the catalog it selects, with a
\* text that holds no reference
Defined(n) ==
  LET sel == SuffixSelection(Redirect(n))
  IN /\ sel.variable \in DOMAIN Catalog(sel.language)
     /\ VarPositions(Catalog(sel.language)[sel.variable]) = {}

TwoReferences ==
  /\ Len(line0) = 2
  /\ line0[1].t = "var" /\ line0[2].t = "var"
  /\ line0[1] # line0[2]
  /\ Defined(line0[1].a) /\ Defined(line0[2].a)

\* C11: on a line of two distinct references, both defined, the first pass
\* takes the leftmost one, and the line parse_variable returns holds no
\* reference.
C11_BothReferencesResolved ==
  TwoReferences
  => /\ (pc = "pv_body" /\ last_pass = NoPass) => ans = line0[1]
     /\ pc \in {"pv_return", "done"} => VarPositions(line) = {}

\* what parse_markdown hands to markdown(), and the paragraphs of a markup
Prepared(value) == Markdown(ReplaceBackslashes(Strip(value)))
Paragraphs(text) == Cardinality({i \in 1..Len(text) : text[i] = POpen})
\* the text the last pass looked up
LastValue == Lookup(ForceLanguage(Redirect(last_pass.ref.a))).value

\* C12: the text a pass substitutes is the markup of the value without its
\* <p>..</p> when the markup is one paragraph, and the markup unchanged when
\* it is more than one paragraph.
C12_WrapperRemovedOnlyForSingleParagraph ==
  (PassDone /\ Errors(last_pass.logs) = {})
  => LET markup == Prepared(LastValue)
         expected == IF Paragraphs(markup) = 1
                     THEN SubSeq(markup, 2, Len(markup) - 1)
                     ELSE markup
     IN line = Replace(last_pass.before, last_pass.ref, expected)

-----------------------------------------------------------------------------
(* Properties of compile *)

Frames == {stack[i] : i \in 1..Len(stack)}
InProgress == {fr.filename : fr \in Frames}
Contains(text, tok) == \E i \in 1..Len(text) : text[i] = tok
Occurrences(text, tok) == Cardinality({i \in 1..Len(text) : text[i] = tok})

\* C1, the value returned: a call of compile(f) for a cached f returns the
\* cached text.
ResultIsCached ==
  result.file \in DOMAIN built_html => result.value = built_html[result.file]

\* C1, no re-reading: no call for a cached file gets as far as reading it.
NoRerender == InProgress \cap DOMAIN built_html = {}

\* C1, the cache: an entry of built_html stays, with its value.
CacheFinal ==
  \A f \in DOMAIN built_html : f \in DOMAIN built_html' /\ built_html'[f] = built_html[f]

\* C1: once compile(f) has returned T, every later compile(f) of the run
\* returns T without reading f again, whatever happened in between; a cached
\* value is never replaced.
C1_FirstRenderWins == [](ResultIsCached /\ NoRerender) /\ [][CacheFinal]_vars

\* index.html, called second, has just included the footer.html that the first
\* call rendered, and whose source was edited between the two calls.
C1_Witness ==
  /\ calls = 2
  /\ pc = "loop"
  /\ Len(stack) = 1
  /\ Top.filename = "index.html"
  /\ Top.i = 4
  /\ "footer.html" \in DOMAIN built_html
  /\ built_html["footer.html"] = <<Txt("bye")>>
  /\ templates["footer.html"] = << <<Cmt, Var("alias"), Newline>> >>
  /\ result = [file |-> "footer.html", value |-> <<Txt("bye")>>]
  /\ Contains(Top.html, Txt("bye"))

WritesOf(f) == Cardinality({i \in 1..Len(asset_writes) : asset_writes[i].file = f})
AssetNames == CssSources \cup JsSources \cup {"gone.css"}
Texts == {fr.html : fr \in Frames} \cup {built_html[f] : f \in DOMAIN built_html}
           \cup {outputs[f] : f \in DOMAIN outputs}
Tagged(f) ==
  \E text \in Texts : Contains(text, AssetTag("css", f)) \/ Contains(text, AssetTag("js", f))

\* C2, at most once, and once when a reference was processed
BuiltOnce == \A f \in AssetNames : WritesOf(f) <= 1 /\ (Tagged(f) => WritesOf(f) = 1)

\* C2, a processed reference emits its tag, and the build set grows only
TagEmitted ==
  /\ built_dict \subseteq built_dict'
  /\ (AtLine /\ Handler(CurLine) \in {"css", "js"} /\ pc' # "aborted")
       => /\ Len(stack') = Len(stack)
          /\ stack'[Len(stack)].html
               = Top.html \o <<AssetTag(Handler(CurLine), Match(CurLine, Handler(CurLine)).a)>>

\* C2: the asset build set only grows, an asset path is transformed at most
\* once (once if a reference to it was processed), and every reference, first
\* or repeated, appends a reference tag to the output.
C2_AssetBuiltOnceTagAlways == [](BuiltOnce) /\ [][TagEmitted]_vars

C2_Witness ==
  /\ stack # <<>>
  /\ Occurrences(Top.html, AssetTag("css", "site.css")) = 2
  /\ WritesOf("site.css") = 1
  /\ "site.css" \in built_dict

\* The include chain as a render follows it: a cached file is not read, a
\* missing file has no lines.
IncludesOf(lines) ==
  {Match(lines[i], "include").a : i \in {j \in 1..Len(lines) : Handler(lines[j]) = "include"}}
Edges(f) ==
  IF f \in DOMAIN built_html \/ f \notin DOMAIN templates THEN {} ELSE IncludesOf(templates[f])
RECURSIVE ReachIn(_, _)
ReachIn(from, n) ==
  LET next == from \cup UNION {Edges(f) : f \in from}
  IN IF n = 0 \/ next = from THEN from ELSE ReachIn(next, n - 1)
Below(f) == ReachIn(Edges(f), Cardinality(Files))
OnCycle(f) == f \in Below(f)
ReachesCycle(f) == \E g \in {f} \cup Below(f) : OnCycle(g)

\* C9: while the include chain of the rendered file has a cycle, the call does
\* not return and no file of a cycle enters the cache; the recursion ends only
\* by exhausting the stack, which happens on a cyclic chain only.
C9_CyclicIncludeNeverReturns ==
  [][ /\ built_html' # built_html
           => \A f \in Files : OnCycle(f) => f \notin DOMAIN built_html'
      /\ (stack # <<>> /\ pc' = "idle") => ~ReachesCycle(stack[1].filename)
      /\ (abort'.error = "RecursionError" /\ abort.error = "")
           => (stack # <<>> /\ ReachesCycle(stack[1].filename) /\ Len(stack) = MaxDepth)
    ]_vars

C9_Witness ==
  /\ pc = "aborted"
  /\ abort.error = "RecursionError"
  /\ Len(stack) = MaxDepth
  /\ stack[1].filename = "a.html"
  /\ stack[2].filename = "b.html"
  /\ stack[3].filename = "a.html"
  /\ InProgress \cap DOMAIN built_html = {}

\* C10, a missing include: the step that finds it ends the run with every
\* frame left as it was and nothing cached
MissingIncludeAborts ==
  (AtLine /\ Handler(CurLine) = "include"
     /\ EnterOutcome(Match(CurLine, "include").a) = "IOError")
  => /\ pc' = "aborted"
     /\ abort' = [error |-> "IOError", file |-> Match(CurLine, "include").a]
     /\ stack' = stack
     /\ built_html' = built_html
     /\ result' = result

\* C10, after the failure: no call returns, and neither the missing file nor a
\* file being rendered is cached
AbortedForGood ==
  /\ pc = "aborted" => (pc' = "aborted" /\ stack' = stack /\ built_html' = built_html)
  /\ pc' = "aborted"
       => (InProgress \cup {abort'.file}) \cap DOMAIN built_html' = {}

\* C10, a variable that cannot be resolved: the pass that logs the error
\* leaves the loop, not the file; the line is appended and the next line is
\* the one processed next
ResolutionFailureContained ==
  /\ (pc = "pv_body" /\ Errors(last_pass'.logs) # {} /\ stack # <<>>)
       => /\ pc' = "pv_return"
          /\ abort' = NoAbort
          /\ stack' = stack
          /\ line' = line
  /\ (pc = "pv_return" /\ stack # <<>> /\ pv_for = "line")
       => /\ pc' = "loop"
          /\ Len(stack') = Len(stack)
          /\ stack'[Len(stack)].html = Top.html \o line
          /\ stack'[Len(stack)].i = Top.i + 1
          /\ stack'[Len(stack)].lines = Top.lines

\* C10: an include of an unreadable file aborts the run through every
\* enclosing call, with neither that file nor a file in progress cached; a
\* variable-resolution failure ends only the resolution of its line.
C10_FailurePropagation ==
  [][MissingIncludeAborts /\ AbortedForGood /\ ResolutionFailureContained]_vars

\* index.html included page.html, which was rendered to its last line and
\* cached although {{nosuch}} could not be resolved, and then broken.html,
\* whose include of missing.html ended the run.
C10_Witness ==
  /\ pc = "aborted"
  /\ abort = [error |-> "IOError", file |-> "missing.html"]
  /\ Len(stack) = 2
  /\ stack[1].filename = "index.html"
  /\ stack[2].filename = "broken.html"
  /\ DOMAIN built_html = {"footer.html", "page.html"}
  /\ Error("nosuch") \in log
  /\ Contains(built_html["page.html"], Var("nosuch"))
  /\ Contains(built_html["page.html"], Txt("end"))

-----------------------------------------------------------------------------
(* Properties of the embeds, the assignment table and the directive order *)

\* C13: a publication or art sub-file embedded more than once in a run is
\* read, and handed to fill_templates, once.
C13_EmbedRenderedOnce ==
  \A i, j \in 1..Len(fills) : fills[i] = fills[j] => i = j

\* C14, the only writer, and what it writes
AssignStep ==
  /\ _assign_dict' # _assign_dict => (AtLine /\ Handler(CurLine) = "assign")
  /\ DOMAIN _assign_dict \subseteq DOMAIN _assign_dict'
  /\ (AtLine /\ Handler(CurLine) = "assign")
       => LET m == Match(CurLine, "assign")
          IN /\ DOMAIN _assign_dict' = DOMAIN _assign_dict \cup {m.a}
             /\ _assign_dict'[m.a] = m.b
             /\ \A k \in DOMAIN _assign_dict \ {m.a} : _assign_dict'[k] = _assign_dict[k]

\* C14: the assignment table changes only at an assignment line, of whatever
\* file of the run; no alias is removed; the line sets its alias to its
\* target and leaves the other aliases as they were, so an alias maps to the
\* target of the last assignment line processed for it.
C14_AssignmentTableLastWriteWins == [][AssignStep]_vars

\* gallery.html set alias to name and resolved its image description through
\* it; page.html, included by its last line, has just set alias to title.
C14_Witness ==
  /\ Len(stack) = 2
  /\ stack[1].filename = "gallery.html"
  /\ stack[1].i = 7
  /\ Contains(stack[1].html, Txt("Ruofei"))
  /\ stack[2].filename = "page.html"
  /\ stack[2].i = 2
  /\ _assign_dict = Dict("alias", "title")

\* the first of the four structural directives that a line holds, if any
Has(l, kind) == \E i \in 1..Len(l) : l[i].t = kind
FirstStructural(l) ==
  IF Has(l, "assign") THEN "assign"
  ELSE IF Has(l, "include") THEN "include"
  ELSE IF Has(l, "css") THEN "css"
  ELSE IF Has(l, "js") THEN "js"
  ELSE "none"
TopHtml(st) == st[Len(stack)].html
Appended(text) == Len(stack') >= Len(stack) /\ TopHtml(stack') = Top.html \o text

\* C15, a line with a structural directive: the first of the four decides
\* what the step does, and parse_variable is not called
StructuralDecides ==
  LET l == CurLine
      first == FirstStructural(l)
  IN (AtLine /\ first # "none")
     => /\ pc' \in {"loop", "aborted"}
        /\ UNCHANGED <<pvVars, log, fills>>
        /\ first # "assign" => _assign_dict' = _assign_dict
        /\ first = "assign"
             => _assign_dict' = Put(_assign_dict, Match(l, "assign").a, Match(l, "assign").b)
        /\ first = "assign" => (Appended(<<>>) /\ Len(stack') = Len(stack))
        /\ first = "include"
             => \/ pc' = "aborted"
                \/ /\ Len(stack') = Len(stack) + 1
                   /\ stack'[Len(stack')].filename = Match(l, "include").a
                \/ /\ Match(l, "include").a \in DOMAIN built_html
                   /\ Appended(built_html[Match(l, "include").a])
        /\ first \in {"css", "js"}
             => \/ pc' = "aborted"
                \/ /\ Len(stack') = Len(stack)
                   /\ Appended(<<AssetTag(first, Match(l, first).a)>>)
        /\ first \notin {"css", "js"} => built_dict' = built_dict

\* C15, the other lines that reach the matcher: parse_variable is called, on
\* the description of an image first, and then on the line as the embeds
\* left it; a line is handed to parse_variable in no other case
ResolutionRuns ==
  /\ (AtLine /\ HasMarker(CurLine) /\ FirstStructural(CurLine) = "none")
       => \/ pc' = "pv_while" /\ stack' = stack
          \/ pc' = "aborted" /\ abort'.file \notin DOMAIN SubFiles
  /\ (pc = "loop" /\ pc' = "pv_while")
       => (AtLine /\ HasMarker(CurLine) /\ FirstStructural(CurLine) = "none")
  /\ (AtLine /\ pc' = "pv_while" /\ Has(CurLine, "image"))
       => (pv_for' = "image" /\ line0' = DescLine(Match(CurLine, "image").b))
  /\ (pc = "pv_return" /\ stack # <<>> /\ pv_for = "image")
       => /\ pc' = "pv_while" /\ pv_for' = "line" /\ stack' = stack
          /\ line0' = <<POpen, Tok("img", "/images/" \o Match(CurLine, "image").a, "")>>
                        \o line \o <<Tok("/img", "", ""), PClose>>
  /\ (AtLine /\ pc' = "pv_while" /\ ~Has(CurLine, "image"))
       => /\ pv_for' = "line"
          /\ line0' = IF Has(CurLine, "publication")
                      THEN Fill("publication", SubFiles[Match(CurLine, "publication").a])
                      ELSE IF Has(CurLine, "art")
                      THEN Fill("art", SubFiles[Match(CurLine, "art").a])
                      ELSE CurLine
  /\ pc' = "pv_while" => (ans' = Search(line') /\ (pc # "pv_body" => line' = line0'))

\* C15: the structural directives are tried in the order assignment, include,
\* stylesheet, script, and the first that matches decides the line, without
\* variable resolution; a line with a marker and none of the four is handed
\* to variable resolution, after its image, publication or art embed has
\* replaced it.
C15_DirectiveOrder == [][StructuralDecides /\ ResolutionRuns]_vars

\* The references of a publication embed's text have been resolved: line 4 of
\* gallery.html, as fill_templates returned it and as parse_variable leaves it.
C15_Witness ==
  /\ pc = "pv_return"
  /\ pv_for = "line"
  /\ stack # <<>>
  /\ Top.filename = "gallery.html"
  /\ CurLine = <<Publication("pubs.html"), Txt("x")>>
  /\ line0 = <<Tok("filled", "publication", "selected"), Txt("paper"), Var("title")>>
  /\ VarPositions(line) = {}
  /\ Len(line) = 3

\* C16: a line that holds an assignment directive, whatever else it holds,
\* leaves the output of its file as it was and changes nothing but the entry
\* of its alias in the assignment table (and the position in the file).
C16_AssignmentLineFrame ==
  [][(AtLine /\ Has(CurLine, "assign"))
       => /\ stack' = [stack EXCEPT ![Len(stack)].i = @ + 1]
          /\ \A k \in DOMAIN _assign_dict \ {Match(CurLine, "assign").a} :
               k \in DOMAIN _assign_dict' /\ _assign_dict'[k] = _assign_dict[k]
          /\ DOMAIN _assign_dict' = DOMAIN _assign_dict \cup {Match(CurLine, "assign").a}
          /\ UNCHANGED <<pc, log, result, pvVars, langVars, built_dict, built_html,
                         templates, minimize_html, outputs, asset_writes, abort, calls,
                         nmut, fills, asked, stored>>
    ]_vars

\* Line 1 of gallery.html, an assignment followed by a stylesheet directive
\* and a reference, has been processed: no output, no asset built, no lookup.
C16_Witness ==
  /\ pc = "loop"
  /\ Len(stack) = 1
  /\ Top.filename = "gallery.html"
  /\ Top.lines[1] = <<Assign("alias", "name"), Css("site.css"), Var("title")>>
  /\ Top.i = 2
  /\ Top.html = <<>>
  /\ _assign_dict = Dict("alias", "name")
  /\ built_dict = {}
  /\ asset_writes = <<>>
  /\ log = {}

\* a step that is a call of compile for a cached file: by the build script, or
\* by an include directive
CacheHit ==
  \/ pc = "idle" /\ calls' = calls + 1 /\ asked'.filename \in DOMAIN built_html
  \/ /\ AtLine /\ FirstStructural(CurLine) = "include"
     /\ Len(stack) < MaxDepth
     /\ Match(CurLine, "include").a \in DOMAIN built_html
HitFile == IF pc = "idle" THEN asked'.filename ELSE Match(CurLine, "include").a

\* C17: a call of compile that finds its file in built_html returns the
\* cached text and leaves the assignment table, the render cache and the asset
\* build set as they are; no directive of the file is processed.
C17_CacheHitFrame ==
  [][CacheHit
       => /\ UNCHANGED <<_assign_dict, built_html, built_dict, asset_writes, fills,
                         log, stored, outputs, abort>>
          /\ result' = [file |-> HitFile, value |-> built_html[HitFile]]
          /\ Len(stack') = Len(stack)
    ]_vars

\* page.html, which sets alias to title, was rendered by an earlier call;
\* gallery.html has set alias to name and then included page.html from the
\* cache: alias is still name.
C17_Witness ==
  /\ pc = "loop"
  /\ Len(stack) = 1
  /\ Top.filename = "gallery.html"
  /\ Top.i = 8
  /\ "page.html" \in Top.included
  /\ "page.html" \in DOMAIN built_html
  /\ templates["page.html"][1] = <<Assign("alias", "title"), Include("footer.html")>>
  /\ _assign_dict = Dict("alias", "name")
  /\ result = [file |-> "page.html", value |-> built_html["page.html"]]

\* C18: when a call compile(f, write_to_file=True) of the build script has
\* returned, the output file of f exists and holds the text returned.
C18_WriteToFileWrites ==
  (pc = "idle" /\ asked # NoCall /\ asked.write_to_file)
  => /\ result.file = asked.filename
     /\ asked.filename \in DOMAIN outputs
     /\ outputs[asked.filename] = result.value

\* C19: a stylesheet or script tag in a text of the run implies that the asset
\* was transformed as a stylesheet, respectively as a script.
C19_TagImpliesBuiltForKind ==
  \A kind \in {"css", "js"} : \A f \in AssetNames :
    (\E text \in Texts : Contains(text, AssetTag(kind, f)))
    => \E i \in 1..Len(asset_writes) : asset_writes[i] = [kind |-> kind, file |-> f]

StoredBefore(i) == {stored[j].filename : j \in 1..(i - 1)}

\* C20, the cache: its files are those stored at line 224, none of them is
\* being rendered, and the files a stored file included were stored before it
CacheClosed ==
  /\ DOMAIN built_html = {stored[i].filename : i \in 1..Len(stored)}
  /\ InProgress \cap DOMAIN built_html = {}
  /\ \A i \in 1..Len(stored) :
       /\ stored[i].filename \notin StoredBefore(i)
       /\ stored[i].included \subseteq StoredBefore(i)

\* C20, the store: a file enters the cache when its call has gone through its
\* last line, with the files its include directives named already there
StoreAtCompletion ==
  built_html' # built_html
  => /\ pc = "loop" /\ stack # <<>>
     /\ Top.i > Len(Top.lines)
     /\ DOMAIN built_html' = DOMAIN built_html \cup {Top.filename}
     /\ Top.included \subseteq DOMAIN built_html
     /\ Top.included = IncludesOf(Top.lines)

\* C20: the render cache holds only files whose render ran to completion, and
\* with a file it holds every file that an include directive processed during
\* its render named, stored before it.
C20_CacheClosedUnderIncludes == [](CacheClosed) /\ [][StoreAtCompletion]_vars

\* compile('gallery.html') has returned: footer.html, page.html and
\* gallery.html were stored in that order, each after the file it includes.
C20_Witness ==
  /\ pc = "idle"
  /\ Len(stored) = 3
  /\ stored[1] = [filename |-> "footer.html", included |-> {}]
  /\ stored[2] = [filename |-> "page.html", included |-> {"footer.html"}]
  /\ stored[3] = [filename |-> "gallery.html", included |-> {"page.html"}]
  /\ DOMAIN built_html = {"footer.html", "page.html", "gallery.html"}

====
